---- MODULE Spec2Model ----
(***************************************************************************)
(* A model of nolawnchairs/file-chunker: FileChunker.chunk() (src/chunk.ts) *)
(* and FileJoiner.join() (join.ts, whose text is carried at the end of     *)
(* README.md), both async generators, as state machines whose steps are    *)
(* the stretches of code between two suspension points.                    *)
(***************************************************************************)
EXTENDS Integers, Sequences, FiniteSets, TLC

\* ------------------------------------------------------------------ bounds
MaxLen == 5          \* longest file content
MaxByte == 1         \* byte values are 0..MaxByte
MaxChunkSize == 3    \* config.chunkSize ranges over 1..MaxChunkSize
MaxChunks == 2       \* longest chunks array handed to a free-standing FileJoiner

Bytes == 0..MaxByte

RECURSIVE SeqsUpTo(_, _)
SeqsUpTo(S, n) ==
    IF n = 0 THEN {<<>>}
    ELSE LET shorter == SeqsUpTo(S, n - 1)
         IN  shorter \cup {Append(s, x) : s \in {t \in shorter : Len(t) = n - 1}, x \in S}

Min(a, b) == IF a <= b THEN a ELSE b

\* ------------------------------------------------------------ node:crypto
\* A Hash object is modelled by its internal state, a number; update()
\* absorbs the bytes one by one and digest('hex') formats the state as two
\* hexadecimal digits.
createHash == 0

RECURSIVE update(_, _)
update(h, bytes) ==
    IF bytes = <<>> THEN h
    ELSE update((h * 31 + Head(bytes) + 1) % 256, Tail(bytes))

digest(h) == <<h \div 16, h % 16>>

\* createHash('sha256').update(bytes).digest('hex')
sha256hex(bytes) == digest(update(createHash, bytes))

\* ------------------------------------------------------------ node:Buffer
subarray(b, start, end) == SubSeq(b, start + 1, end)

\* null (or undefined) in the place of a Buffer: a value that is no byte string.
Null == <<-1>>

RECURSIVE concat(_)
concat(list) == IF list = <<>> THEN <<>> ELSE Head(list) \o concat(Tail(list))

\* ------------------------------------------------------------------ state
VARIABLES
    file,          \* the bytes of the file at filePath
    chunkSize,     \* config.chunkSize
    stream,        \* the ReadStream: [pos, ended, destroyed, opened, error]
    fileHash,      \* chunk(): the running whole-file Hash
    buffer,        \* chunk(): the accumulation buffer
    hasYielded,    \* chunk(): hasYielded
    index,         \* chunk(): index
    cpc,           \* chunk(): where the generator is suspended
    results,       \* the ChunkResults the consumer has received, in order
    chunkError     \* the error chunk() ended with, or "none"

VARIABLES
    config,            \* FileJoiner.config: [finalChecksum, chunks]
    sortedChunks,      \* join(): sortedChunks
    joinHash,          \* join(): the running whole-file Hash (fileHash in join.ts)
    sourceChunksInfo,  \* join(): sourceChunksInfo
    position,          \* join(): how many of sortedChunks the for-of loop has passed
    jpc,               \* join(): where the generator is suspended
    joined,            \* the JoinResults the consumer has received, in order
    joinError          \* the error join() threw, or NoError

\* Two invocations at once: each generator object keeps its own locals while
\* the other runs. The variables above are those of the invocations that
\* are running now; peer holds those of the invocations that are suspended.
VARIABLE peer

joinerVars == <<config, sortedChunks, joinHash, sourceChunksInfo, position, jpc,
                joined, joinError>>

chunkerVars == <<file, chunkSize, stream, fileHash, buffer, hasYielded, index,
                 cpc, results, chunkError>>

NoStream ==
    [pos |-> 0, ended |-> FALSE, destroyed |-> FALSE, opened |-> FALSE, error |-> "none"]

\* The errors a ReadStream may fail with.
IOErrors == {"EIO", "EACCES"}

Intermediates(rs) == SelectSeq(rs, LAMBDA r : ~r.done)
Finals(rs) == SelectSeq(rs, LAMBDA r : r.done)

\* --------------------------------------------------------- FileChunker.chunk
\* chunk.ts 28-37: the first next() opens the stream and initialises the locals.
ChunkStart ==
    /\ cpc = "start"
    /\ stream' = [NoStream EXCEPT !.opened = TRUE]
    /\ fileHash' = createHash
    /\ buffer' = <<>>
    /\ hasYielded' = FALSE
    /\ index' = 0
    /\ cpc' = "read"
    /\ UNCHANGED <<file, chunkSize, results, chunkError>>
    /\ UNCHANGED <<joinerVars, peer>>

\* A block handler that replaces the buffer by the block instead of appending.
ReadBlockReplacesBuffer ==
    /\ cpc = "read"
    /\ stream.pos < Len(file)
    /\ \E n \in 1..Min(chunkSize, Len(file) - stream.pos) :
          LET chunk == subarray(file, stream.pos, stream.pos + n)
          IN  /\ fileHash' = update(fileHash, chunk)
              /\ buffer' = chunk
              /\ stream' = [stream EXCEPT !.pos = stream.pos + n]
    /\ cpc' = "cut"
    /\ UNCHANGED <<file, chunkSize, hasYielded, index, results, chunkError>>
    /\ UNCHANGED <<joinerVars, peer>>

\* A stream opened without highWaterMark: a block may exceed chunkSize.
ReadBlockAnySize ==
    /\ cpc = "read"
    /\ stream.pos < Len(file)
    /\ \E n \in 1..(Len(file) - stream.pos) :
          LET chunk == subarray(file, stream.pos, stream.pos + n)
          IN  /\ fileHash' = update(fileHash, chunk)
              /\ buffer' = buffer \o chunk
              /\ stream' = [stream EXCEPT !.pos = stream.pos + n]
    /\ cpc' = "cut"
    /\ UNCHANGED <<file, chunkSize, hasYielded, index, results, chunkError>>
    /\ UNCHANGED <<joinerVars, peer>>

\* A block handler that hashes the accumulated buffer instead of the block.
ReadBlockHashesBuffer ==
    /\ cpc = "read"
    /\ stream.pos < Len(file)
    /\ \E n \in 1..Min(chunkSize, Len(file) - stream.pos) :
          LET chunk == subarray(file, stream.pos, stream.pos + n)
          IN  /\ fileHash' = update(fileHash, buffer \o chunk)
              /\ buffer' = buffer \o chunk
              /\ stream' = [stream EXCEPT !.pos = stream.pos + n]
    /\ cpc' = "cut"
    /\ UNCHANGED <<file, chunkSize, hasYielded, index, results, chunkError>>
    /\ UNCHANGED <<joinerVars, peer>>

\* chunk.ts 38-40: the stream delivers its next block, of at most
\* highWaterMark = chunkSize bytes; the block is hashed and appended.
ReadBlock ==
    /\ cpc = "read"
    /\ stream.pos < Len(file)
    /\ \E n \in 1..Min(chunkSize, Len(file) - stream.pos) :
          LET chunk == subarray(file, stream.pos, stream.pos + n)
          IN  /\ fileHash' = update(fileHash, chunk)
              /\ buffer' = buffer \o chunk
              /\ stream' = [stream EXCEPT !.pos = stream.pos + n]
    /\ cpc' = "cut"
    /\ UNCHANGED <<file, chunkSize, hasYielded, index, results, chunkError>>
    /\ UNCHANGED <<joinerVars, peer>>

\* A loop that leaves a window-sized buffer uncut: > for >=.
windowReadyStrict(buf, size) == Len(buf) > size

\* chunk.ts 42: while (buffer.length >= this.config.chunkSize)
windowReady(buf, size) == Len(buf) >= size

\* A cut that yields the window but leaves it in the buffer.
CutWindowKeepsBuffer ==
    /\ cpc = "cut"
    /\ windowReady(buffer, chunkSize)
    /\ LET chunkToYield == subarray(buffer, 0, chunkSize)
       IN  results' = Append(results,
               [done |-> FALSE, index |-> index, chunk |-> chunkToYield,
                checksum |-> sha256hex(chunkToYield)])
    /\ buffer' = buffer
    /\ cpc' = "yielded"
    /\ UNCHANGED <<file, chunkSize, stream, fileHash, hasYielded, index, chunkError>>
    /\ UNCHANGED <<joinerVars, peer>>

\* A cut that takes the window's checksum from the running file digest.
CutWindowRunningDigest ==
    /\ cpc = "cut"
    /\ windowReady(buffer, chunkSize)
    /\ LET chunkToYield == subarray(buffer, 0, chunkSize)
       IN  results' = Append(results,
               [done |-> FALSE, index |-> index, chunk |-> chunkToYield,
                checksum |-> digest(fileHash)])
    /\ buffer' = subarray(buffer, chunkSize, Len(buffer))
    /\ cpc' = "yielded"
    /\ UNCHANGED <<file, chunkSize, stream, fileHash, hasYielded, index, chunkError>>
    /\ UNCHANGED <<joinerVars, peer>>

\* A cut that empties the buffer instead of keeping what follows the window.
CutWindowDropsTail ==
    /\ cpc = "cut"
    /\ windowReady(buffer, chunkSize)
    /\ LET chunkToYield == subarray(buffer, 0, chunkSize)
       IN  results' = Append(results,
               [done |-> FALSE, index |-> index, chunk |-> chunkToYield,
                checksum |-> sha256hex(chunkToYield)])
    /\ buffer' = <<>>
    /\ cpc' = "yielded"
    /\ UNCHANGED <<file, chunkSize, stream, fileHash, hasYielded, index, chunkError>>
    /\ UNCHANGED <<joinerVars, peer>>

\* chunk.ts 42-51: a full window is cut off the buffer and yielded.
CutWindow ==
    /\ cpc = "cut"
    /\ windowReady(buffer, chunkSize)
    /\ LET chunkToYield == subarray(buffer, 0, chunkSize)
       IN  results' = Append(results,
               [done |-> FALSE, index |-> index, chunk |-> chunkToYield,
                checksum |-> sha256hex(chunkToYield)])
    /\ buffer' = subarray(buffer, chunkSize, Len(buffer))
    /\ cpc' = "yielded"
    /\ UNCHANGED <<file, chunkSize, stream, fileHash, hasYielded, index, chunkError>>
    /\ UNCHANGED <<joinerVars, peer>>

\* A resumption that forgets index++.
ResumeWithoutIncrement ==
    /\ cpc = "yielded"
    /\ hasYielded' = TRUE
    /\ index' = index
    /\ cpc' = "cut"
    /\ UNCHANGED <<file, chunkSize, stream, fileHash, buffer, results, chunkError>>
    /\ UNCHANGED <<joinerVars, peer>>

\* chunk.ts 52-53: the consumer asks for the next result after an Intermediate.
ResumeAfterYield ==
    /\ cpc = "yielded"
    /\ hasYielded' = TRUE
    /\ index' = index + 1
    /\ cpc' = "cut"
    /\ UNCHANGED <<file, chunkSize, stream, fileHash, buffer, results, chunkError>>
    /\ UNCHANGED <<joinerVars, peer>>

\* chunk.ts 42, 55: the buffer holds less than a window; back to the stream.
AwaitBlock ==
    /\ cpc = "cut"
    /\ ~windowReady(buffer, chunkSize)
    /\ cpc' = "read"
    /\ UNCHANGED <<file, chunkSize, stream, fileHash, buffer, hasYielded, index,
                   results, chunkError>>
    /\ UNCHANGED <<joinerVars, peer>>

\* An ending without the third branch: nothing is yielded when the buffer
\* is empty after some Intermediate, and the generator completes.
YieldFinalWithoutLastBranch ==
    /\ cpc = "read"
    /\ stream.pos = Len(file)
    /\ LET finalFileChecksum == digest(fileHash)
       IN  IF Len(buffer) > 0 \/ ~hasYielded
           THEN /\ results' = Append(results,
                      [done |-> TRUE, chunk |-> buffer, finalChecksum |-> finalFileChecksum])
                /\ stream' = [stream EXCEPT !.ended = TRUE]
                /\ cpc' = "final"
           ELSE /\ results' = results
                /\ stream' = [stream EXCEPT !.ended = TRUE, !.destroyed = TRUE]
                /\ cpc' = "done"
    /\ UNCHANGED <<file, chunkSize, fileHash, buffer, hasYielded, index, chunkError>>
    /\ UNCHANGED <<joinerVars, peer>>

\* An ending that takes the digest of the remainder for the file's.
YieldFinalDigestOfRemainder ==
    /\ cpc = "read"
    /\ stream.pos = Len(file)
    /\ stream' = [stream EXCEPT !.ended = TRUE]
    /\ results' = Append(results,
           [done |-> TRUE, chunk |-> buffer, finalChecksum |-> sha256hex(buffer)])
    /\ cpc' = "final"
    /\ UNCHANGED <<file, chunkSize, fileHash, buffer, hasYielded, index, chunkError>>
    /\ UNCHANGED <<joinerVars, peer>>

\* chunk.ts 57-80: the stream has ended; the digest is finalised and the
\* Final record is yielded by whichever of the three branches applies.
YieldFinal ==
    /\ cpc = "read"
    /\ stream.pos = Len(file)
    /\ stream' = [stream EXCEPT !.ended = TRUE]
    /\ LET finalFileChecksum == digest(fileHash)
       IN  results' = Append(results,
               IF Len(buffer) > 0
               THEN [done |-> TRUE, chunk |-> buffer, finalChecksum |-> finalFileChecksum]
               ELSE IF ~hasYielded
               THEN [done |-> TRUE, chunk |-> <<>>, finalChecksum |-> finalFileChecksum]
               ELSE [done |-> TRUE, chunk |-> <<>>, finalChecksum |-> finalFileChecksum])
    /\ cpc' = "final"
    /\ UNCHANGED <<file, chunkSize, fileHash, buffer, hasYielded, index, chunkError>>
    /\ UNCHANGED <<joinerVars, peer>>

\* chunk.ts 80-84: the consumer asks once more after the Final; the finally
\* block destroys the stream and the generator completes.
ChunkEnd ==
    /\ cpc = "final"
    /\ stream' = [stream EXCEPT !.destroyed = TRUE]
    /\ cpc' = "done"
    /\ UNCHANGED <<file, chunkSize, fileHash, buffer, hasYielded, index, results,
                   chunkError>>
    /\ UNCHANGED <<joinerVars, peer>>

\* A run that catches the stream's error and goes on to yield its Final.
StreamErrorSwallowed ==
    /\ cpc = "read"
    /\ \E err \in IOErrors :
          stream' = [stream EXCEPT !.error = err]
    /\ results' = Append(results,
           [done |-> TRUE, chunk |-> buffer, finalChecksum |-> digest(fileHash)])
    /\ cpc' = "final"
    /\ UNCHANGED <<file, chunkSize, fileHash, buffer, hasYielded, index, chunkError>>
    /\ UNCHANGED <<joinerVars, peer>>

\* chunk.ts 38, 81-83: the stream fails while the generator awaits a block;
\* the error leaves the for-await, the finally block destroys the stream.
StreamError ==
    /\ cpc = "read"
    /\ \E err \in IOErrors :
          /\ stream' = [stream EXCEPT !.error = err, !.destroyed = TRUE]
          /\ chunkError' = err
    /\ cpc' = "error"
    /\ UNCHANGED <<file, chunkSize, fileHash, buffer, hasYielded, index, results>>
    /\ UNCHANGED <<joinerVars, peer>>

\* An abandoned run without the finally block: the stream stays open.
ConsumerReturnLeavesOpen ==
    /\ cpc \in {"yielded", "final"}
    /\ stream' = stream
    /\ cpc' = "returned"
    /\ UNCHANGED <<file, chunkSize, fileHash, buffer, hasYielded, index, results,
                   chunkError>>
    /\ UNCHANGED <<joinerVars, peer>>

\* chunk.ts 46, 60, 81-83: the consumer leaves its loop at a yielded record;
\* return() runs the finally block at the suspended yield.
ConsumerReturn ==
    /\ cpc \in {"yielded", "final"}
    /\ stream' = [stream EXCEPT !.destroyed = TRUE]
    /\ cpc' = "returned"
    /\ UNCHANGED <<file, chunkSize, fileHash, buffer, hasYielded, index, results,
                   chunkError>>
    /\ UNCHANGED <<joinerVars, peer>>

\* ----------------------------------------------------------- FileJoiner.join
NoError == [name |-> "none"]

\* README.md 245: [...chunks].sort((a, b) => a.index - b.index), a stable
\* ascending sort of a copy of the array.
RECURSIVE insertByIndex(_, _)
insertByIndex(sorted, c) ==
    IF sorted = <<>> THEN <<c>>
    ELSE IF sorted[Len(sorted)].index <= c.index THEN Append(sorted, c)
    ELSE Append(insertByIndex(SubSeq(sorted, 1, Len(sorted) - 1), c), sorted[Len(sorted)])

\* A join() that takes the chunks in the order given.
sortByIndexMissing(chunks) == chunks

RECURSIVE sortByIndex(_)
sortByIndex(chunks) ==
    IF chunks = <<>> THEN <<>>
    ELSE insertByIndex(sortByIndex(SubSeq(chunks, 1, Len(chunks) - 1)), chunks[Len(chunks)])

\* A check that each index follows the one before, but not that the first is 0.
misplacedAfterFirst(sorted) ==
    {i \in 1..(Len(sorted) - 1) : sorted[i + 1].index # sorted[i].index + 1}

\* README.md 248-252: the positions (0-based) whose chunk has another index.
misplaced(sorted) == {i \in 0..(Len(sorted) - 1) : sorted[i + 1].index # i}

firstMisplaced(sorted) ==
    CHOOSE i \in misplaced(sorted) : \A j \in misplaced(sorted) : i <= j

\* A join() that sorts this.config.chunks itself, not a copy of it.
JoinStartSortsInPlace ==
    /\ jpc = "start"
    /\ LET sorted == sortByIndex(config.chunks)
       IN  /\ sortedChunks' = sorted
           /\ config' = [config EXCEPT !.chunks = sorted]
           /\ IF misplaced(sorted) # {}
              THEN /\ joinError' = [name |-> "Error", index |-> firstMisplaced(sorted)]
                   /\ jpc' = "failed"
              ELSE /\ joinError' = joinError
                   /\ jpc' = "loop"
    /\ joinHash' = createHash
    /\ sourceChunksInfo' = <<>>
    /\ position' = 0
    /\ UNCHANGED joined
    /\ UNCHANGED <<chunkerVars, peer>>

\* A validation that takes an empty chunks array for a missing chunk 0.
JoinStartRejectsEmpty ==
    /\ jpc = "start"
    /\ LET sorted == sortByIndex(config.chunks)
       IN  /\ sortedChunks' = sorted
           /\ IF misplaced(sorted) # {} \/ sorted = <<>>
              THEN /\ joinError' = [name |-> "Error", index |-> 0]
                   /\ jpc' = "failed"
              ELSE /\ joinError' = joinError
                   /\ jpc' = "loop"
    /\ joinHash' = createHash
    /\ sourceChunksInfo' = <<>>
    /\ position' = 0
    /\ UNCHANGED <<config, joined>>
    /\ UNCHANGED <<chunkerVars, peer>>

\* README.md 243-255: the first next() sorts a copy of the chunks and checks
\* that position i holds index i; a mismatch throws a plain Error.
JoinStart ==
    /\ jpc = "start"
    /\ LET sorted == sortByIndex(config.chunks)
       IN  /\ sortedChunks' = sorted
           /\ IF misplaced(sorted) # {}
              THEN /\ joinError' = [name |-> "Error", index |-> firstMisplaced(sorted)]
                   /\ jpc' = "failed"
              ELSE /\ joinError' = joinError
                   /\ jpc' = "loop"
    /\ joinHash' = createHash
    /\ sourceChunksInfo' = <<>>
    /\ position' = 0
    /\ UNCHANGED <<config, joined>>
    /\ UNCHANGED <<chunkerVars, peer>>

\* A loop body that yields every chunk that holds data, unchecked.
JoinChunkUnchecked ==
    /\ jpc = "loop"
    /\ position < Len(sortedChunks)
    /\ LET sourceChunk == sortedChunks[position + 1]
       IN  IF sourceChunk.buffer = Null
           THEN /\ joinError' = [name |-> "TypeError"]
                /\ jpc' = "failed"
                /\ UNCHANGED <<joinHash, sourceChunksInfo, joined>>
           ELSE /\ joinHash' = update(joinHash, sourceChunk.buffer)
                /\ sourceChunksInfo' = Append(sourceChunksInfo,
                       [index |-> sourceChunk.index, checksum |-> sourceChunk.checksum])
                /\ joined' = Append(joined,
                       [done |-> FALSE, output |-> sourceChunk.buffer,
                        checksum |-> sourceChunk.checksum])
                /\ jpc' = "yielded"
                /\ UNCHANGED joinError
    /\ UNCHANGED <<config, sortedChunks, position>>
    /\ UNCHANGED <<chunkerVars, peer>>

\* A loop body that yields the chunk before it checks the checksum.
JoinChunkYieldsFirst ==
    /\ jpc = "loop"
    /\ position < Len(sortedChunks)
    /\ LET sourceChunk == sortedChunks[position + 1]
           calculatedChecksum == sha256hex(sourceChunk.buffer)
       IN  IF sourceChunk.buffer = Null
           THEN /\ joinError' = [name |-> "TypeError"]
                /\ jpc' = "failed"
                /\ UNCHANGED <<joinHash, sourceChunksInfo, joined>>
           ELSE
           /\ joinHash' = update(joinHash, sourceChunk.buffer)
           /\ sourceChunksInfo' = Append(sourceChunksInfo,
                  [index |-> sourceChunk.index, checksum |-> sourceChunk.checksum])
           /\ joined' = Append(joined,
                  [done |-> FALSE, output |-> sourceChunk.buffer,
                   checksum |-> sourceChunk.checksum])
           /\ IF calculatedChecksum # sourceChunk.checksum
              THEN /\ joinError' = [name |-> "InvalidChecksumError",
                                    index |-> sourceChunk.index,
                                    expected |-> sourceChunk.checksum,
                                    got |-> calculatedChecksum]
                   /\ jpc' = "failed"
              ELSE /\ jpc' = "yielded"
                   /\ UNCHANGED joinError
    /\ UNCHANGED <<config, sortedChunks, position>>
    /\ UNCHANGED <<chunkerVars, peer>>

\* README.md 258-281: the next chunk is checked against its checksum; a
\* mismatch throws InvalidChecksumError, otherwise the chunk is hashed into
\* the file digest, recorded and yielded. Hash.update() throws a TypeError
\* when the chunk holds no Buffer.
JoinChunk ==
    /\ jpc = "loop"
    /\ position < Len(sortedChunks)
    /\ LET sourceChunk == sortedChunks[position + 1]
           calculatedChecksum == sha256hex(sourceChunk.buffer)
       IN  IF sourceChunk.buffer = Null
           THEN /\ joinError' = [name |-> "TypeError"]
                /\ jpc' = "failed"
                /\ UNCHANGED <<joinHash, sourceChunksInfo, joined>>
           ELSE IF calculatedChecksum # sourceChunk.checksum
           THEN /\ joinError' = [name |-> "InvalidChecksumError",
                                 index |-> sourceChunk.index,
                                 expected |-> sourceChunk.checksum,
                                 got |-> calculatedChecksum]
                /\ jpc' = "failed"
                /\ UNCHANGED <<joinHash, sourceChunksInfo, joined>>
           ELSE /\ joinHash' = update(joinHash, sourceChunk.buffer)
                /\ sourceChunksInfo' = Append(sourceChunksInfo,
                       [index |-> sourceChunk.index, checksum |-> sourceChunk.checksum])
                /\ joined' = Append(joined,
                       [done |-> FALSE, output |-> sourceChunk.buffer,
                        checksum |-> sourceChunk.checksum])
                /\ jpc' = "yielded"
                /\ UNCHANGED joinError
    /\ UNCHANGED <<config, sortedChunks, position>>
    /\ UNCHANGED <<chunkerVars, peer>>

\* README.md 258, 282: the consumer asks for the next result; the for-of
\* loop moves to the next chunk.
JoinResume ==
    /\ jpc = "yielded"
    /\ position' = position + 1
    /\ jpc' = "loop"
    /\ UNCHANGED <<config, sortedChunks, joinHash, sourceChunksInfo, joined, joinError>>
    /\ UNCHANGED <<chunkerVars, peer>>

\* An ending that yields the Final without comparing the digests.
JoinFinalUnchecked ==
    /\ jpc = "loop"
    /\ position = Len(sortedChunks)
    /\ joined' = Append(joined,
           [done |-> TRUE, finalChecksum |-> config.finalChecksum,
            sourceChunks |-> sourceChunksInfo])
    /\ jpc' = "final"
    /\ UNCHANGED joinError
    /\ UNCHANGED <<config, sortedChunks, joinHash, sourceChunksInfo, position>>
    /\ UNCHANGED <<chunkerVars, peer>>

\* An ending whose Final lists the chunks as config.chunks lists them.
JoinFinalListsInput ==
    /\ jpc = "loop"
    /\ position = Len(sortedChunks)
    /\ LET calculatedFinalChecksum == digest(joinHash)
       IN  IF calculatedFinalChecksum # config.finalChecksum
           THEN /\ joinError' = [name |-> "InvalidFinalChecksumError",
                                 expected |-> config.finalChecksum,
                                 got |-> calculatedFinalChecksum]
                /\ jpc' = "failed"
                /\ UNCHANGED joined
           ELSE /\ joined' = Append(joined,
                       [done |-> TRUE, finalChecksum |-> config.finalChecksum,
                        sourceChunks |->
                            [i \in 1..Len(config.chunks) |->
                                [index |-> config.chunks[i].index,
                                 checksum |-> config.chunks[i].checksum]]])
                /\ jpc' = "final"
                /\ UNCHANGED joinError
    /\ UNCHANGED <<config, sortedChunks, joinHash, sourceChunksInfo, position>>
    /\ UNCHANGED <<chunkerVars, peer>>

\* A final check that reports the two digests the wrong way round.
JoinFinalSwapsDigests ==
    /\ jpc = "loop"
    /\ position = Len(sortedChunks)
    /\ LET calculatedFinalChecksum == digest(joinHash)
       IN  IF calculatedFinalChecksum # config.finalChecksum
           THEN /\ joinError' = [name |-> "InvalidFinalChecksumError",
                                 expected |-> calculatedFinalChecksum,
                                 got |-> config.finalChecksum]
                /\ jpc' = "failed"
                /\ UNCHANGED joined
           ELSE /\ joined' = Append(joined,
                       [done |-> TRUE, finalChecksum |-> config.finalChecksum,
                        sourceChunks |-> sourceChunksInfo])
                /\ jpc' = "final"
                /\ UNCHANGED joinError
    /\ UNCHANGED <<config, sortedChunks, joinHash, sourceChunksInfo, position>>
    /\ UNCHANGED <<chunkerVars, peer>>

\* README.md 284-297: after the last chunk the file digest is compared with
\* config.finalChecksum; a mismatch throws InvalidFinalChecksumError,
\* otherwise the Final record is yielded.
JoinFinal ==
    /\ jpc = "loop"
    /\ position = Len(sortedChunks)
    /\ LET calculatedFinalChecksum == digest(joinHash)
       IN  IF calculatedFinalChecksum # config.finalChecksum
           THEN /\ joinError' = [name |-> "InvalidFinalChecksumError",
                                 expected |-> config.finalChecksum,
                                 got |-> calculatedFinalChecksum]
                /\ jpc' = "failed"
                /\ UNCHANGED joined
           ELSE /\ joined' = Append(joined,
                       [done |-> TRUE, finalChecksum |-> config.finalChecksum,
                        sourceChunks |-> sourceChunksInfo])
                /\ jpc' = "final"
                /\ UNCHANGED joinError
    /\ UNCHANGED <<config, sortedChunks, joinHash, sourceChunksInfo, position>>
    /\ UNCHANGED <<chunkerVars, peer>>

\* README.md 298: the consumer asks once more after the Final; join() returns.
JoinEnd ==
    /\ jpc = "final"
    /\ jpc' = "done"
    /\ UNCHANGED <<config, sortedChunks, joinHash, sourceChunksInfo, position,
                   joined, joinError>>
    /\ UNCHANGED <<chunkerVars, peer>>

\* chunk.spec.ts 386-415: the consumer of a completed chunk() run builds a
\* FileJoiner from what it received: one chunk per Intermediate, the Final's
\* remainder as one more chunk at the next index (the test leaves an empty
\* remainder out), and the Final's finalChecksum as config.finalChecksum.
\* The consumer may list the chunks first to last, last to first, or with
\* the first chunk moved behind the others.
reverse(s) == [i \in 1..Len(s) |-> s[Len(s) + 1 - i]]

rotate(s) == IF s = <<>> THEN s ELSE Append(Tail(s), Head(s))

listed(s, order) ==
    CASE order = "forward" -> s
      [] order = "backward" -> reverse(s)
      [] order = "rotated" -> rotate(s)

chunkData(rs, keepEmpty) ==
    LET inter == Intermediates(rs)
        final == Finals(rs)[1]
        data  == [i \in 1..Len(inter) |->
                    [buffer |-> inter[i].chunk, index |-> inter[i].index,
                     checksum |-> inter[i].checksum]]
    IN  IF Len(final.chunk) > 0 \/ keepEmpty
        THEN Append(data, [buffer |-> final.chunk, index |-> Len(data),
                           checksum |-> sha256hex(final.chunk)])
        ELSE data

Handoff ==
    /\ cpc = "done"
    /\ jpc = "idle"
    /\ \E keepEmpty \in BOOLEAN, order \in {"forward", "backward", "rotated"} :
          config' = [finalChecksum |-> Finals(results)[1].finalChecksum,
                     chunks |-> listed(chunkData(results, keepEmpty), order)]
    /\ jpc' = "start"
    /\ UNCHANGED <<chunkerVars, peer>>
    /\ UNCHANGED <<sortedChunks, joinHash, sourceChunksInfo, position, joined, joinError>>

\* ------------------------------------------------------------ initial states
NoConfig == [finalChecksum |-> <<>>, chunks |-> <<>>]

\* A chunk() run about to start on some file, no FileJoiner constructed yet.
InitChunker ==
    /\ file \in SeqsUpTo(Bytes, MaxLen)
    /\ chunkSize \in 1..MaxChunkSize
    /\ stream = NoStream
    /\ fileHash = createHash
    /\ buffer = <<>>
    /\ hasYielded = FALSE
    /\ index = 0
    /\ cpc = "start"
    /\ results = <<>>
    /\ chunkError = "none"
    /\ config = NoConfig
    /\ sortedChunks = <<>>
    /\ joinHash = createHash
    /\ sourceChunksInfo = <<>>
    /\ position = 0
    /\ jpc = "idle"
    /\ joined = <<>>
    /\ joinError = NoError

\* The chunks a caller may hand to a FileJoiner: any index, a buffer of at
\* most one byte, and a checksum that is the buffer's digest or another one;
\* or a chunk that holds no data, with some checksum.
JoinBuffers == {<<>>} \cup {<<b>> : b \in Bytes}

FileChunks ==
    UNION {[index : 0..MaxChunks, buffer : {b},
            checksum : {sha256hex(b), sha256hex(Append(b, 0))}] : b \in JoinBuffers}
    \cup [index : 0..MaxChunks, buffer : {Null}, checksum : {sha256hex(<<>>)}]

bytesOf(b) == IF b = Null THEN <<>> ELSE b

buffersByIndex(chunks) ==
    concat([i \in 1..Len(chunks) |-> bytesOf(sortByIndex(chunks)[i].buffer)])

\* A join() run about to start on a caller-built FileJoiner, no chunk() run.
InitJoiner ==
    /\ file = <<>>
    /\ chunkSize = 1
    /\ stream = NoStream
    /\ fileHash = createHash
    /\ buffer = <<>>
    /\ hasYielded = FALSE
    /\ index = 0
    /\ cpc = "idle"
    /\ results = <<>>
    /\ chunkError = "none"
    /\ \E chunks \in SeqsUpTo(FileChunks, MaxChunks) :
       \E finalChecksum \in {sha256hex(buffersByIndex(chunks)),
                             sha256hex(Append(buffersByIndex(chunks), 0))} :
          config = [finalChecksum |-> finalChecksum, chunks |-> chunks]
    /\ sortedChunks = <<>>
    /\ joinHash = createHash
    /\ sourceChunksInfo = <<>>
    /\ position = 0
    /\ jpc = "start"
    /\ joined = <<>>
    /\ joinError = NoError

\* The locals and the configuration of the invocations running now.
frame ==
    [file |-> file, chunkSize |-> chunkSize, stream |-> stream, fileHash |-> fileHash,
     buffer |-> buffer, hasYielded |-> hasYielded, index |-> index, cpc |-> cpc,
     results |-> results, chunkError |-> chunkError,
     config |-> config, sortedChunks |-> sortedChunks, joinHash |-> joinHash,
     sourceChunksInfo |-> sourceChunksInfo, position |-> position, jpc |-> jpc,
     joined |-> joined, joinError |-> joinError]

\* No other invocation: nothing opened, nothing constructed.
NoPeer ==
    [file |-> <<>>, chunkSize |-> 1, stream |-> NoStream, fileHash |-> createHash,
     buffer |-> <<>>, hasYielded |-> FALSE, index |-> 0, cpc |-> "idle",
     results |-> <<>>, chunkError |-> "none",
     config |-> NoConfig, sortedChunks |-> <<>>, joinHash |-> createHash,
     sourceChunksInfo |-> <<>>, position |-> 0, jpc |-> "idle",
     joined |-> <<>>, joinError |-> NoError]

Init == (InitChunker \/ InitJoiner) /\ peer = NoPeer

Next ==
    \/ ChunkStart
    \/ ReadBlock
    \/ CutWindow
    \/ ResumeAfterYield
    \/ AwaitBlock
    \/ YieldFinal
    \/ ChunkEnd
    \/ StreamError
    \/ ConsumerReturn
    \/ Handoff
    \/ JoinStart
    \/ JoinChunk
    \/ JoinResume
    \/ JoinFinal
    \/ JoinEnd

vars == <<chunkerVars, joinerVars, peer>>

Spec == Init /\ [][Next]_vars

\* The steps of a chunk() run whose consumer keeps asking for the next
\* result: the stream of a finite file delivers its next block or its end,
\* the generator's synchronous code runs on, the consumer resumes a yield.
ChunkerRun ==
    \/ ChunkStart
    \/ ReadBlock
    \/ CutWindow
    \/ ResumeAfterYield
    \/ AwaitBlock
    \/ YieldFinal
    \/ ChunkEnd

\* A run that is consumed to the end does not stop while it can go on.
LiveSpec == Spec /\ WF_vars(ChunkerRun)

\* ------------------------------------------------- two invocations at once
\* Concurrent runs work on short inputs.
ConcLen == (MaxLen + 1) \div 3
ConcChunks == MaxChunks \div 2

\* A chunk() run about to start, alone in its frame.
ChunkFrames ==
    {[NoPeer EXCEPT !.file = f, !.chunkSize = s, !.cpc = "start"] :
        f \in SeqsUpTo(Bytes, ConcLen), s \in 1..MaxChunkSize}

\* A join() run about to start, alone in its frame.
JoinFrames ==
    {[NoPeer EXCEPT !.config = [finalChecksum |-> c[2], chunks |-> c[1]], !.jpc = "start"] :
        c \in UNION { {<<chunks, sha256hex(buffersByIndex(chunks))>>,
                        <<chunks, sha256hex(Append(buffersByIndex(chunks), 0))>>} :
                      chunks \in SeqsUpTo(FileChunks, ConcChunks)} }

\* Two invocations on unrelated inputs: two chunk() runs, two join() runs,
\* or one of each.
ConcInit ==
    \E a \in ChunkFrames \cup JoinFrames, b \in ChunkFrames \cup JoinFrames :
          /\ file = a.file
          /\ chunkSize = a.chunkSize
          /\ stream = a.stream
          /\ fileHash = a.fileHash
          /\ buffer = a.buffer
          /\ hasYielded = a.hasYielded
          /\ index = a.index
          /\ cpc = a.cpc
          /\ results = a.results
          /\ chunkError = a.chunkError
          /\ config = a.config
          /\ sortedChunks = a.sortedChunks
          /\ joinHash = a.joinHash
          /\ sourceChunksInfo = a.sourceChunksInfo
          /\ position = a.position
          /\ jpc = a.jpc
          /\ joined = a.joined
          /\ joinError = a.joinError
          /\ peer = b

\* A module-level index counter: the one thing the two runs would share.
SwitchSharedIndex ==
    /\ peer' = frame
    /\ file' = peer.file
    /\ chunkSize' = peer.chunkSize
    /\ stream' = peer.stream
    /\ fileHash' = peer.fileHash
    /\ buffer' = peer.buffer
    /\ hasYielded' = peer.hasYielded
    /\ index' = index
    /\ cpc' = peer.cpc
    /\ results' = peer.results
    /\ chunkError' = peer.chunkError
    /\ config' = peer.config
    /\ sortedChunks' = peer.sortedChunks
    /\ joinHash' = peer.joinHash
    /\ sourceChunksInfo' = peer.sourceChunksInfo
    /\ position' = peer.position
    /\ jpc' = peer.jpc
    /\ joined' = peer.joined
    /\ joinError' = peer.joinError

\* chunk.ts 27-36, README.md 242-256: the event loop turns from one
\* suspended generator to the other; each finds its own locals as it left
\* them, and its own configuration.
Switch ==
    /\ peer' = frame
    /\ file' = peer.file
    /\ chunkSize' = peer.chunkSize
    /\ stream' = peer.stream
    /\ fileHash' = peer.fileHash
    /\ buffer' = peer.buffer
    /\ hasYielded' = peer.hasYielded
    /\ index' = peer.index
    /\ cpc' = peer.cpc
    /\ results' = peer.results
    /\ chunkError' = peer.chunkError
    /\ config' = peer.config
    /\ sortedChunks' = peer.sortedChunks
    /\ joinHash' = peer.joinHash
    /\ sourceChunksInfo' = peer.sourceChunksInfo
    /\ position' = peer.position
    /\ jpc' = peer.jpc
    /\ joined' = peer.joined
    /\ joinError' = peer.joinError

ConcNext ==
    \/ ChunkStart
    \/ ReadBlock
    \/ CutWindow
    \/ ResumeAfterYield
    \/ AwaitBlock
    \/ YieldFinal
    \/ ChunkEnd
    \/ StreamError
    \/ ConsumerReturn
    \/ JoinStart
    \/ JoinChunk
    \/ JoinResume
    \/ JoinFinal
    \/ JoinEnd
    \/ Switch

ConcSpec == ConcInit /\ [][ConcNext]_vars

\* ================================================================== claims
chunkOf(r) == r.chunk
outputOf(r) == r.output

\* The bytes of the Intermediate and Final records of a chunk() run, in order.
emittedBytes(rs) == concat([i \in 1..Len(rs) |-> chunkOf(rs[i])])

\* The bytes of the Intermediate records of a join() run, in order.
joinedBytes(js) ==
    LET inter == Intermediates(js)
    IN  concat([i \in 1..Len(inter) |-> outputOf(inter[i])])

\* A join() run on a FileJoiner built from a completed chunk() run.
RoundTrip == cpc = "done" /\ jpc # "idle"

\* The guards of JoinStart, JoinChunk, JoinResume, JoinFinal and JoinEnd: the
\* run is at a point where its next step can be taken.
joinCanStep ==
    \/ jpc \in {"start", "yielded", "final"}
    \/ jpc = "loop" /\ position <= Len(sortedChunks)

C2_ChunkCountLaw ==
    Finals(results) # <<>> =>
        LET inter == Intermediates(results)
            final == Finals(results)[1]
        IN  /\ Len(inter) = Len(file) \div chunkSize
            /\ \A i \in 1..Len(inter) : Len(inter[i].chunk) = chunkSize
            /\ Len(final.chunk) = Len(file) % chunkSize
            /\ Len(file) < chunkSize => (Len(results) = 1 /\ final.chunk = file)

C2_Witness ==
    /\ cpc = "done"
    /\ chunkSize = 2
    /\ Len(file) = 5
    /\ Len(Intermediates(results)) = 2
    /\ Len(Finals(results)[1].chunk) = 1

\* C3: exactly one Final, last. No run holds two Final records, a Final
\* record is the last record received, and a run whose stream ended without
\* error has yielded its Final: with empty bytes for the empty file (and no
\* Intermediate) and for a length that is a multiple of chunkSize.
C3_OneFinalLast ==
    /\ Len(Finals(results)) <= 1
    /\ Finals(results) # <<>> => results[Len(results)].done
    /\ (stream.ended \/ cpc = "done") =>
          /\ Len(Finals(results)) = 1
          /\ Len(file) = 0 => results = <<[done |-> TRUE, chunk |-> <<>>,
                                           finalChecksum |-> sha256hex(<<>>)]>>
          /\ Len(file) % chunkSize = 0 => Finals(results)[1].chunk = <<>>
          /\ Len(file) % chunkSize # 0 => Finals(results)[1].chunk # <<>>

C3_Witness ==
    /\ cpc = "done"
    /\ Len(file) > 0
    /\ Len(file) % chunkSize = 0
    /\ Len(results) >= 3
    /\ results[Len(results)] = [done |-> TRUE, chunk |-> <<>>,
                                finalChecksum |-> sha256hex(file)]

\* C4: the finalChecksum of the Final record of chunk() is the digest of the
\* whole file, whatever the chunkSize and the number of windows cut.
C4_FinalChecksumIsFileDigest ==
    \A i \in 1..Len(results) :
        results[i].done => results[i].finalChecksum = sha256hex(file)

C4_Witness ==
    /\ Finals(results) # <<>>
    /\ Len(Intermediates(results)) >= 2
    /\ Len(Finals(results)[1].chunk) > 0
    /\ Finals(results)[1].finalChecksum = sha256hex(file)
    /\ Finals(results)[1].finalChecksum # sha256hex(Finals(results)[1].chunk)

\* C5: no byte is lost, duplicated or reordered. At every moment of a run
\* the chunks emitted so far followed by the accumulation buffer are the
\* bytes the stream has delivered, and once the Final is out the chunks of
\* all records, in order, are the file.
C5_NoByteLost ==
    /\ cpc \in {"read", "cut", "yielded"} =>
          emittedBytes(results) \o buffer = SubSeq(file, 1, stream.pos)
    /\ Finals(results) # <<>> => emittedBytes(results) = file

C5_Witness ==
    /\ Finals(results) # <<>>
    /\ Len(Intermediates(results)) >= 2
    /\ Len(Finals(results)[1].chunk) > 0
    /\ emittedBytes(results) = file
    /\ file[1] # file[Len(file)]

\* C6: the k-th Intermediate record of chunk(), counting from 0, carries
\* index k, in every state of a run.
C6_IndicesContiguous ==
    LET inter == Intermediates(results)
    IN  \A k \in 1..Len(inter) : inter[k].index = k - 1

C6_Witness ==
    /\ Len(Intermediates(results)) >= 3
    /\ Intermediates(results)[3].index = 2

\* The chunks hold each index 0..count-1 exactly once.
validSet(chunks) == {chunks[i].index : i \in 1..Len(chunks)} = 0..(Len(chunks) - 1)

\* The chunk of a valid set that carries index k.
chunkAt(chunks, k) == chunks[CHOOSE i \in 1..Len(chunks) : chunks[i].index = k]

\* A valid set listed by ascending index.
ascending(chunks) == [k \in 1..Len(chunks) |-> chunkAt(chunks, k - 1)]

JoinStarted == jpc \notin {"idle", "start"}

C8_ContiguityBeforeEmission ==
    (JoinStarted /\ ~validSet(config.chunks)) =>
        /\ jpc = "failed"
        /\ joined = <<>>
        /\ joinError.name \notin {"none", "InvalidChecksumError", "InvalidFinalChecksumError"}

C8_Witness ==
    /\ jpc = "failed"
    /\ Len(config.chunks) = 2
    /\ {config.chunks[i].index : i \in 1..2} = {0, 2}
    /\ \A i \in 1..2 : sha256hex(config.chunks[i].buffer) = config.chunks[i].checksum
    /\ joined = <<>>

\* C9: the failure of join() on a chunk set whose indices are not exactly
\* 0..count-1 is an InvalidChunkError.
C9_ContiguityFailureIsInvalidChunkError ==
    (jpc = "failed" /\ ~validSet(config.chunks)) => joinError.name = "InvalidChunkError"

hasData(c) == c.buffer # Null

matches(c) == hasData(c) /\ sha256hex(c.buffer) = c.checksum

\* The indices of a valid set whose chunk holds no data.
missing(chunks) == {k \in 0..(Len(chunks) - 1) : ~hasData(chunkAt(chunks, k))}

\* The indices of a valid set whose chunk holds bytes that do not hash to
\* its checksum.
tampered(chunks) ==
    {k \in 0..(Len(chunks) - 1) :
        hasData(chunkAt(chunks, k)) /\ ~matches(chunkAt(chunks, k))}

lowest(S) == CHOOSE k \in S : \A j \in S : k <= j

wholeBytes(chunks) ==
    concat([k \in 1..Len(chunks) |-> bytesOf(chunkAt(chunks, k - 1).buffer)])

C12_MissingChunkError ==
    (JoinStarted /\ validSet(config.chunks) /\ missing(config.chunks) # {}
       /\ \A j \in tampered(config.chunks) : j > lowest(missing(config.chunks))) =>
        LET k == lowest(missing(config.chunks))
        IN  /\ jpc \in {"loop", "yielded", "failed"}
            /\ Len(joined) <= k
            /\ position <= k
            /\ jpc = "failed" =>
                  /\ Len(joined) = k
                  /\ joinError = [name |-> "MissingChunkError", index |-> k]

\* What join() does on that input: the same emissions, and a TypeError.
C12_Observed ==
    (JoinStarted /\ validSet(config.chunks) /\ missing(config.chunks) # {}
       /\ \A j \in tampered(config.chunks) : j > lowest(missing(config.chunks))) =>
        LET k == lowest(missing(config.chunks))
        IN  /\ jpc \in {"loop", "yielded", "failed"}
            /\ Len(joined) <= k
            /\ position <= k
            /\ jpc = "failed" =>
                  /\ Len(joined) = k
                  /\ joinError = [name |-> "TypeError"]

ChunkTerminated == cpc \in {"done", "error", "returned"}

\* C15: the stream of a started chunk() run is destroyed on every exit:
\* after the Final, on an error of the stream, and when the consumer leaves
\* at an Intermediate or at the Final. No terminated run has its stream open,
\* and a stream is destroyed only when its run terminates.
C15_StreamReleased ==
    /\ ChunkTerminated => (stream.opened /\ stream.destroyed)
    /\ stream.destroyed => ChunkTerminated

C15_Witness ==
    /\ cpc = "returned"
    /\ stream.destroyed
    /\ ~stream.ended
    /\ Len(results) = 2
    /\ stream.pos < Len(file)

\* C16: when the stream fails, at whatever point of the run, chunk() ends
\* with the stream's own error, the records received are the Intermediates
\* yielded before it (floor(bytes delivered / chunkSize) of them), and the
\* run holds no Final.
C16_StreamErrorEndsRun ==
    /\ stream.error # "none" =>
          /\ cpc = "error"
          /\ chunkError = stream.error
          /\ Finals(results) = <<>>
          /\ Len(results) = stream.pos \div chunkSize
          /\ emittedBytes(results) \o buffer = SubSeq(file, 1, stream.pos)
    /\ cpc = "error" <=> chunkError # "none"
    /\ chunkError # "none" => chunkError = stream.error

C16_Witness ==
    /\ cpc = "error"
    /\ chunkError = "EACCES"
    /\ stream.error = "EACCES"
    /\ Len(results) = 1
    /\ stream.pos < Len(file)
    /\ buffer # <<>>

\* C17: every Intermediate join() has yielded carries bytes whose digest,
\* computed afresh, is the checksum declared for that chunk; the k-th one is
\* the k-th chunk of the sorted array, and no chunk that fails its check, or
\* that the loop has not reached, is among them.
C17_EmittedOnlyIfValidated ==
    LET inter == Intermediates(joined)
    IN  /\ \A k \in 1..Len(inter) :
              /\ k <= Len(sortedChunks)
              /\ inter[k].output = sortedChunks[k].buffer
              /\ inter[k].checksum = sortedChunks[k].checksum
              /\ inter[k].output # Null
              /\ sha256hex(inter[k].output) = inter[k].checksum
        /\ JoinStarted =>
              Len(inter) = IF jpc \in {"loop", "failed"} THEN position ELSE
                           IF jpc = "yielded" THEN position + 1 ELSE Len(sortedChunks)

C17_Witness ==
    /\ cpc = "idle"
    /\ jpc = "failed"
    /\ joinError.name = "InvalidChecksumError"
    /\ Len(sortedChunks) = 2
    /\ sha256hex(sortedChunks[1].buffer) = sortedChunks[1].checksum
    /\ sha256hex(sortedChunks[2].buffer) # sortedChunks[2].checksum
    /\ Len(joined) = 1
    /\ joined[1].output = sortedChunks[1].buffer

\* The k-th window (from 1) of the file.
window(k) == SubSeq(file, (k - 1) * chunkSize + 1, k * chunkSize)

\* C18: the checksum of each Intermediate of chunk() is the digest, from a
\* fresh Hash, of that record's own window of chunkSize bytes, the k-th
\* window of the file: it is the same whatever the windows before and after
\* it hold and whatever the running file digest has absorbed.
C18_WindowChecksum ==
    LET inter == Intermediates(results)
    IN  \A k \in 1..Len(inter) :
            /\ inter[k].chunk = window(k)
            /\ inter[k].checksum = digest(update(createHash, window(k)))
            /\ \A j \in 1..Len(inter) :
                  inter[j].chunk = inter[k].chunk => inter[j].checksum = inter[k].checksum

C18_Witness ==
    /\ Len(Intermediates(results)) >= 2
    /\ chunkSize = 2
    /\ Intermediates(results)[1].chunk # Intermediates(results)[2].chunk
    /\ Intermediates(results)[2].checksum = sha256hex(Intermediates(results)[2].chunk)
    /\ Intermediates(results)[2].checksum # sha256hex(SubSeq(file, 1, 4))
    /\ Intermediates(results)[2].checksum # digest(fileHash)

pcRank ==
    CASE cpc = "start" -> 5
      [] cpc = "yielded" -> 4
      [] cpc = "cut" -> 3
      [] cpc = "read" -> 2
      [] cpc = "final" -> 1
      [] OTHER -> 0

\* What a run still has before it: bytes to read, bytes buffered, code to run.
chunkProgress == <<Len(file) - stream.pos, Len(buffer), pcRank>>

lexLess(a, b) ==
    \/ a[1] < b[1]
    \/ a[1] = b[1] /\ a[2] < b[2]
    \/ a[1] = b[1] /\ a[2] = b[2] /\ a[3] < b[3]

\* C20: a chunk() run on a finite file with chunkSize >= 1, consumed to the
\* end, terminates. Every step of the run lowers (bytes unread, bytes
\* buffered, code position) in the lexicographic order, whose components
\* never go below zero; a cut removes exactly chunkSize bytes, so after a
\* block the loop has floor(buffer.length / chunkSize) cuts left to make;
\* the run yields at most floor(size / chunkSize) + 1 records; and a run
\* that has started reaches its end.
C20_Terminates ==
    /\ [][/\ chunkerVars' # chunkerVars => lexLess(chunkProgress', chunkProgress)
          /\ Len(results') > Len(results) /\ cpc = "cut" =>
                Len(buffer') = Len(buffer) - chunkSize]_vars
    /\ [](/\ stream.pos <= Len(file)
          /\ chunkSize >= 1
          /\ Len(results) <= Len(file) \div chunkSize + 1
          /\ cpc \in {"cut", "yielded"} =>
                Len(Intermediates(results)) + Len(buffer) \div chunkSize
                   = stream.pos \div chunkSize)
    /\ (cpc = "start") ~> ChunkTerminated

C20_Witness ==
    /\ cpc = "done"
    /\ chunkSize = 2
    /\ Len(file) = 5
    /\ Len(results) = 3
    /\ stream.pos = Len(file)
    /\ jpc = "idle"
\* The records of a content under a chunk size, as content and size alone
\* fix them: one Intermediate per whole window, then the Final.
recordsOf(content, size) ==
    LET n == Len(content) \div size
        w(k) == SubSeq(content, (k - 1) * size + 1, k * size)
    IN  [k \in 1..n |->
            [done |-> FALSE, index |-> k - 1, chunk |-> w(k), checksum |-> sha256hex(w(k))]]
        \o <<[done |-> TRUE, chunk |-> SubSeq(content, n * size + 1, Len(content)),
              finalChecksum |-> sha256hex(content)]>>

isPrefix(s, t) == Len(s) <= Len(t) /\ s = SubSeq(t, 1, Len(s))

\* C22: whatever sizes the stream gives its blocks, the records chunk() has
\* yielded are the first records of the one sequence that content and
\* chunkSize fix, and all of it once the Final is out: two runs on the same
\* content and chunkSize yield identical records however the source is split.
C22_BlockSplitIndependent ==
    /\ cpc # "idle" => isPrefix(results, recordsOf(file, chunkSize))
    /\ cpc \in {"final", "done"} => results = recordsOf(file, chunkSize)

\* After 4 bytes of blocks no larger than 3, not all blocks were whole windows.
C22_Witness ==
    /\ cpc = "read"
    /\ chunkSize = 3
    /\ stream.pos = 4
    /\ Len(file) = 5
    /\ Len(buffer) = 1
    /\ results = SubSeq(recordsOf(file, chunkSize), 1, 1)

\* C23: join() on an empty chunks array passes the validation loop and
\* yields no Intermediate; it goes straight to the final check, where it
\* yields one Final with an empty sourceChunks when config.finalChecksum is
\* the digest of no bytes, and otherwise throws InvalidFinalChecksumError
\* having yielded nothing.
C23_EmptyChunkSet ==
    (config.chunks = <<>> /\ JoinStarted) =>
        /\ sortedChunks = <<>>
        /\ jpc \in {"loop", "final", "done", "failed"}
        /\ jpc = "loop" => position = Len(sortedChunks) /\ joined = <<>> /\ joinError = NoError
        /\ jpc \in {"final", "done"} =>
              /\ config.finalChecksum = sha256hex(<<>>)
              /\ joined = <<[done |-> TRUE, finalChecksum |-> config.finalChecksum,
                             sourceChunks |-> <<>>]>>
              /\ joinError = NoError
        /\ jpc = "failed" =>
              /\ config.finalChecksum # sha256hex(<<>>)
              /\ joined = <<>>
              /\ joinError = [name |-> "InvalidFinalChecksumError",
                              expected |-> config.finalChecksum,
                              got |-> sha256hex(<<>>)]

C23_Witness ==
    /\ config.chunks = <<>>
    /\ cpc = "idle"
    /\ jpc = "done"
    /\ Len(joined) = 1
    /\ joined[1].sourceChunks = <<>>

\* C24: no step of a join() run changes this.config: the chunks array keeps
\* the order and the contents the caller gave it and finalChecksum stays as
\* it was, whether the run ends with a Final or with an error; the sorted
\* array is another array.
C24_ConfigUnchanged ==
    [][jpc # "idle" => config' = config]_vars

C24_Witness ==
    /\ jpc = "done"
    /\ Len(config.chunks) = 2
    /\ config.chunks[1].index = 1
    /\ sortedChunks # config.chunks
    /\ sortedChunks[1].index = 0
\* What join() yields and how it ends for a configuration, as the
\* configuration alone fixes it.
joinOutcome(cfg) ==
    LET sorted == sortByIndex(cfg.chunks)
        bad == {k \in 1..Len(sorted) :
                   \/ sorted[k].buffer = Null
                   \/ sha256hex(sorted[k].buffer) # sorted[k].checksum}
        n == IF bad = {} THEN Len(sorted) ELSE lowest(bad) - 1
        inter == [k \in 1..n |->
                     [done |-> FALSE, output |-> sorted[k].buffer,
                      checksum |-> sorted[k].checksum]]
        whole == sha256hex(concat([k \in 1..n |-> sorted[k].buffer]))
    IN  IF misplaced(sorted) # {}
        THEN [joined |-> <<>>,
              error |-> [name |-> "Error", index |-> firstMisplaced(sorted)]]
        ELSE IF bad # {} /\ sorted[n + 1].buffer = Null
        THEN [joined |-> inter, error |-> [name |-> "TypeError"]]
        ELSE IF bad # {}
        THEN [joined |-> inter,
              error |-> [name |-> "InvalidChecksumError", index |-> sorted[n + 1].index,
                         expected |-> sorted[n + 1].checksum,
                         got |-> sha256hex(sorted[n + 1].buffer)]]
        ELSE IF whole # cfg.finalChecksum
        THEN [joined |-> inter,
              error |-> [name |-> "InvalidFinalChecksumError",
                         expected |-> cfg.finalChecksum, got |-> whole]]
        ELSE [joined |-> inter \o
                  <<[done |-> TRUE, finalChecksum |-> cfg.finalChecksum,
                     sourceChunks |-> [k \in 1..n |->
                         [index |-> sorted[k].index, checksum |-> sorted[k].checksum]]]>>,
              error |-> NoError]

\* The invocations of frame f have yielded and failed as they do alone.
asAlone(f) ==
    /\ f.cpc # "idle" => isPrefix(f.results, recordsOf(f.file, f.chunkSize))
    /\ f.cpc \in {"final", "done"} => f.results = recordsOf(f.file, f.chunkSize)
    /\ f.cpc = "error" <=> f.chunkError # "none"
    /\ f.chunkError = f.stream.error
    /\ f.jpc # "idle" => isPrefix(f.joined, joinOutcome(f.config).joined)
    /\ f.jpc \in {"final", "done"} =>
          /\ f.joined = joinOutcome(f.config).joined
          /\ joinOutcome(f.config).error = NoError
    /\ f.jpc = "failed" =>
          /\ f.joined = joinOutcome(f.config).joined
          /\ f.joinError = joinOutcome(f.config).error
    /\ f.jpc # "failed" => f.joinError = NoError

\* C21: when two invocations (two chunk() runs, two join() runs, or one of
\* each) on unrelated inputs take their steps in any interleaving, each
\* yields the records, or fails with the error, that its own input fixes
\* when it runs alone: the running one and the suspended one alike.
C21_ConcurrentRunsIndependent ==
    asAlone(frame) /\ asAlone(peer)

\* Both runs are in the middle of their files, each at a yield.
C21_Witness ==
    /\ cpc = "yielded"
    /\ peer.cpc = "yielded"
    /\ Len(results) = 2
    /\ Len(peer.results) = 1
    /\ file # peer.file
    /\ chunkSize # peer.chunkSize
    /\ index = 1
    /\ peer.index = 0
====
